---------------------------- MODULE Spec2Model ----------------------------
(***************************************************************************)
(* Model of the two IPv4 exercise scripts.                                 *)
(*                                                                         *)
(*   homework1.py : decimal_to_binary, binary_to_decimal,                  *)
(*                  validate_ip_format and the interactive loop of main    *)
(*   homework2.py : validate_ip, determine_ip_class, get_subnet_mask,      *)
(*                  get_network_range, analyze_ip and the loop of main     *)
(*                                                                         *)
(* A Python str is a sequence of one-character tokens.  The ASCII          *)
(* characters are themselves; a Cyrillic letter is written as a token      *)
(* "<ve>" (lower case) or "<VE>" (upper case), and the class label the     *)
(* code spells in Cyrillic ("Neizvestnyj", i.e. unknown) is the label      *)
(* "Unknown".                                                              *)
(***************************************************************************)
EXTENDS Integers, Sequences, FiniteSets

VARIABLES
    ip_address,   \* the argument of the function under call
    op,           \* the function that was called on it ("none" before a call)
    ret,          \* what the call returned (or the exception it raised)
    script,       \* which script's main is running (1 or 2; 0: none)
    pc,           \* position of main in its while loop
    user_input,   \* the line input() returned last
    outcome,      \* what the last loop iteration printed
    nread,        \* number of lines read so far
    nout          \* number of outcomes printed so far

vars == <<ip_address, op, ret, script, pc, user_input, outcome, nread, nout>>

(***************************************************************************)
(* Bounds of the model.                                                    *)
(***************************************************************************)
\* the first octet of the decimal addresses ranges over 0..MaxValue
MaxValue == 257
\* addresses of the wrong length have 0..MaxOctets octets
MaxOctets == 5
\* the interactive loop reads at most MaxLines lines
MaxLines == 3

(***************************************************************************)
(* Python built-ins, as the scripts use them.                              *)
(***************************************************************************)
Digits == <<"0", "1", "2", "3", "4", "5", "6", "7", "8", "9">>

IsDigit(c) == \E i \in 1..10 : Digits[i] = c

DigitVal(c) == (CHOOSE i \in 1..10 : Digits[i] = c) - 1

\* str.split("."): the pieces between the dots; never an empty list
RECURSIVE split_from(_, _, _, _)
split_from(s, i, cur, acc) ==
    IF i > Len(s) THEN Append(acc, cur)
    ELSE IF s[i] = "." THEN split_from(s, i + 1, <<>>, Append(acc, cur))
    ELSE split_from(s, i + 1, Append(cur, s[i]), acc)

split(s) == split_from(s, 1, <<>>, <<>>)

\* ".".join(list)
RECURSIVE join(_)
join(l) ==
    IF Len(l) = 0 THEN <<>>
    ELSE IF Len(l) = 1 THEN l[1]
    ELSE l[1] \o <<".">> \o join(Tail(l))

\* str.strip(), which int() applies to its argument
RECURSIVE lstrip(_)
lstrip(s) == IF Len(s) > 0 /\ s[1] = " " THEN lstrip(Tail(s)) ELSE s

RECURSIVE rstrip(_)
rstrip(s) ==
    IF Len(s) > 0 /\ s[Len(s)] = " " THEN rstrip(SubSeq(s, 1, Len(s) - 1)) ELSE s

\* the value of a run of decimal digits and underscores
RECURSIVE digits_value(_, _)
digits_value(s, acc) ==
    IF Len(s) = 0 THEN acc
    ELSE IF s[1] = "_" THEN digits_value(Tail(s), acc)
    ELSE digits_value(Tail(s), 10 * acc + DigitVal(s[1]))

\* the digit part of an integer literal: digits, single underscores between them
literal_ok(s) ==
    /\ Len(s) > 0
    /\ \A i \in 1..Len(s) : IsDigit(s[i]) \/ s[i] = "_"
    /\ IsDigit(s[1])
    /\ IsDigit(s[Len(s)])
    /\ \A i \in 1..(Len(s) - 1) : ~(s[i] = "_" /\ s[i + 1] = "_")

\* int(s): surrounding blanks, an optional sign, then the literal;
\* ok = FALSE stands for the ValueError int() raises.  Of the whitespace
\* int() strips only the blank occurs in the arguments, and of the digits
\* it reads only the ASCII ones.
int(s) ==
    LET t == rstrip(lstrip(s))
        signed == Len(t) > 0 /\ t[1] \in {"+", "-"}
        body == IF signed THEN Tail(t) ELSE t
        mag == digits_value(body, 0)
    IN  IF literal_ok(body)
        THEN [ok |-> TRUE, val |-> IF signed /\ t[1] = "-" THEN 0 - mag ELSE mag]
        ELSE [ok |-> FALSE, val |-> 0]

\* all(bit in '01' for bit in octet)
all_bits(octet) == \A i \in 1..Len(octet) : octet[i] \in {"0", "1"}

\* int(octet, 2) of a string of '0'/'1'
RECURSIVE int_base2_from(_, _)
int_base2_from(s, acc) ==
    IF Len(s) = 0 THEN acc
    ELSE int_base2_from(Tail(s), 2 * acc + (IF s[1] = "1" THEN 1 ELSE 0))

int_base2(s) == int_base2_from(s, 0)

\* bin(n)[2:] for n >= 0: the base-2 digits, no leading zeros
RECURSIVE bin(_)
bin(n) ==
    IF n < 2 THEN <<Digits[n + 1]>>
    ELSE Append(bin(n \div 2), Digits[(n % 2) + 1])

\* str.zfill(width) of an unsigned string
RECURSIVE zfill(_, _)
zfill(s, width) == IF Len(s) >= width THEN s ELSE zfill(<<"0">> \o s, width)

\* str(n) for n >= 0
RECURSIVE str(_)
str(n) ==
    IF n < 10 THEN <<Digits[n + 1]>>
    ELSE Append(str(n \div 10), Digits[(n % 10) + 1])

(***************************************************************************)
(* homework1.py                                                            *)
(*                                                                         *)
(* A conversion returns a Python str.  The record [err, msg, text] is that *)
(* string: err = FALSE and text is the converted address, or err = TRUE,   *)
(* msg names the message template and text is the octet quoted in it.      *)
(***************************************************************************)
Converted(text) == [err |-> FALSE, msg |-> "none", text |-> text]

ErrorString(msg, octet) == [err |-> TRUE, msg |-> msg, text |-> octet]

\* decimal_octet_to_binary without the zfill(8)
decimal_octet_to_binary_unpadded(octet) ==
    LET decimal_octet == int(octet)
    IN  IF ~decimal_octet.ok THEN ErrorString("not_a_number", octet)
        ELSE IF decimal_octet.val < 0 \/ decimal_octet.val > 255
        THEN ErrorString("octet_range", octet)
        ELSE Converted(bin(decimal_octet.val))

\* the loop body of decimal_to_binary for one octet
decimal_octet_to_binary(octet) ==
    LET decimal_octet == int(octet)
    IN  IF ~decimal_octet.ok THEN ErrorString("not_a_number", octet)
        ELSE IF decimal_octet.val < 0 \/ decimal_octet.val > 255
        THEN ErrorString("octet_range", octet)
        ELSE Converted(zfill(bin(decimal_octet.val), 8))

\* the for loop: the first octet that fails returns its error
RECURSIVE decimal_loop(_, _)
decimal_loop(octets, binary_octets) ==
    IF Len(octets) = 0 THEN Converted(join(binary_octets))
    ELSE LET r == decimal_octet_to_binary(octets[1])
         IN  IF r.err THEN r
             ELSE decimal_loop(Tail(octets), Append(binary_octets, r.text))

decimal_to_binary(ip) ==
    LET octets == split(ip)
    IN  IF Len(octets) # 4 THEN ErrorString("four_octets", <<>>)
        ELSE decimal_loop(octets, <<>>)

RECURSIVE binary_loop(_, _)
binary_loop(octets, decimal_octets) ==
    IF Len(octets) = 0 THEN Converted(join(decimal_octets))
    ELSE IF ~all_bits(octets[1]) \/ Len(octets[1]) # 8
    THEN ErrorString("eight_bits", octets[1])
    ELSE binary_loop(Tail(octets),
                     Append(decimal_octets, str(int_base2(octets[1]))))

binary_to_decimal(ip) ==
    LET octets == split(ip)
    IN  IF Len(octets) # 4 THEN ErrorString("four_octets", <<>>)
        ELSE binary_loop(octets, <<>>)

\* one pass of the loop of validate_ip_format: the decimal check
octet_is_decimal(octet) ==
    LET decimal_value == int(octet)
    IN  decimal_value.ok /\ ~(decimal_value.val < 0 \/ decimal_value.val > 255)

\* one pass of the loop of validate_ip_format: the binary check
octet_is_binary(octet) == ~(~all_bits(octet) \/ Len(octet) # 8)

validate_ip_format(ip) ==
    LET octets == split(ip)
        is_decimal == \A i \in 1..Len(octets) : octet_is_decimal(octets[i])
        is_binary == \A i \in 1..Len(octets) : octet_is_binary(octets[i])
    IN  IF Len(octets) # 4 THEN "invalid"
        ELSE IF is_decimal THEN "decimal"
        ELSE IF is_binary THEN "binary"
        ELSE "invalid"

(***************************************************************************)
(* Python's unbounded integers.  The address arithmetic of                 *)
(* get_network_range goes beyond 2**31, so an integer is kept as three     *)
(* limbs, top * 2**32 + hi * 2**16 + lo, with hi and lo in 0..65535.       *)
(***************************************************************************)
Limb == 2 ^ 16

wide(top, hi, lo) ==
    LET h == hi + (lo \div Limb)
    IN  [top |-> top + (h \div Limb), hi |-> h % Limb, lo |-> lo % Limb]

wide_add(a, b) == wide(a.top + b.top, a.hi + b.hi, a.lo + b.lo)

wide_sub(a, b) == wide(a.top - b.top, a.hi - b.hi, a.lo - b.lo)

wide_le(a, b) ==
    \/ a.top < b.top
    \/ a.top = b.top /\ a.hi < b.hi
    \/ a.top = b.top /\ a.hi = b.hi /\ a.lo <= b.lo

\* 2**k for 0 <= k <= 32
pow2(k) ==
    IF k < 16 THEN wide(0, 0, 2 ^ k)
    ELSE IF k < 32 THEN wide(0, 2 ^ (k - 16), 0)
    ELSE wide(1, 0, 0)

\* n << k for k in {0, 8, 16, 24}
shift_left(n, k) ==
    IF k = 24 THEN wide(n \div 256, (n % 256) * 256, 0)
    ELSE IF k = 16 THEN wide(n \div Limb, n % Limb, 0)
    ELSE IF k = 8 THEN wide(n \div (2 ^ 24), (n % (2 ^ 24)) \div 256, (n % 256) * 256)
    ELSE wide(0, n \div Limb, n % Limb)

\* (x >> k) & 255 for k in {0, 8, 16, 24}
shift_right_and_255(x, k) ==
    IF k < 16 THEN (x.lo \div (2 ^ k)) % 256 ELSE (x.hi \div (2 ^ (k - 16))) % 256

RECURSIVE bits_and(_, _)
bits_and(a, b) ==
    IF a = 0 \/ b = 0 THEN 0
    ELSE 2 * bits_and(a \div 2, b \div 2) + (IF a % 2 = 1 /\ b % 2 = 1 THEN 1 ELSE 0)

RECURSIVE bits_or(_, _)
bits_or(a, b) ==
    IF a = 0 THEN b
    ELSE IF b = 0 THEN a
    ELSE 2 * bits_or(a \div 2, b \div 2) + (IF a % 2 = 1 \/ b % 2 = 1 THEN 1 ELSE 0)

\* a & b, for any a and for 0 <= b < 2**32: the bits of a above bit 31 meet zeros
wide_and(a, b) == wide(0, bits_and(a.hi, b.hi), bits_and(a.lo, b.lo))

\* a | b, for 0 <= a, b < 2**32
wide_or(a, b) == wide(0, bits_or(a.hi, b.hi), bits_or(a.lo, b.lo))

(***************************************************************************)
(* homework2.py                                                            *)
(*                                                                         *)
(* A call that can raise returns a record whose field exc names the        *)
(* exception, "none" when the call returns normally.                       *)
(***************************************************************************)
\* validate_ip with the upper limit off by one
validate_ip_upto_256(ip) ==
    LET octets == split(ip)
    IN  IF Len(octets) # 4 THEN FALSE
        ELSE \A i \in 1..4 :
                LET value == int(octets[i])
                IN  value.ok /\ ~(value.val < 0 \/ value.val > 256)

validate_ip(ip) ==
    LET octets == split(ip)
    IN  IF Len(octets) # 4 THEN FALSE
        ELSE \A i \in 1..4 :
                LET value == int(octets[i])
                IN  value.ok /\ ~(value.val < 0 \/ value.val > 255)

\* the if/elif chain with class B running up to 192
class_of_first_octet_b_to_192(first_octet) ==
    IF 1 <= first_octet /\ first_octet <= 126 THEN <<"A", 8>>
    ELSE IF 128 <= first_octet /\ first_octet <= 192 THEN <<"B", 16>>
    ELSE IF 193 <= first_octet /\ first_octet <= 223 THEN <<"C", 24>>
    ELSE IF 224 <= first_octet /\ first_octet <= 239 THEN <<"D", 0>>
    ELSE IF 240 <= first_octet /\ first_octet <= 255 THEN <<"E", 0>>
    ELSE IF first_octet = 127 THEN <<"Loopback", 8>>
    ELSE <<"Unknown", 0>>

\* the if/elif chain with class C running up to 239
class_of_first_octet_c_to_239(first_octet) ==
    IF 1 <= first_octet /\ first_octet <= 126 THEN <<"A", 8>>
    ELSE IF 128 <= first_octet /\ first_octet <= 191 THEN <<"B", 16>>
    ELSE IF 192 <= first_octet /\ first_octet <= 239 THEN <<"C", 24>>
    ELSE IF 240 <= first_octet /\ first_octet <= 255 THEN <<"E", 0>>
    ELSE IF first_octet = 127 THEN <<"Loopback", 8>>
    ELSE <<"Unknown", 0>>

\* the if/elif chain without the branch for 127
class_of_first_octet_no_loopback(first_octet) ==
    IF 1 <= first_octet /\ first_octet <= 126 THEN <<"A", 8>>
    ELSE IF 128 <= first_octet /\ first_octet <= 191 THEN <<"B", 16>>
    ELSE IF 192 <= first_octet /\ first_octet <= 223 THEN <<"C", 24>>
    ELSE IF 224 <= first_octet /\ first_octet <= 239 THEN <<"D", 0>>
    ELSE IF 240 <= first_octet /\ first_octet <= 255 THEN <<"E", 0>>
    ELSE <<"Unknown", 0>>

\* the if/elif chain of determine_ip_class on the first octet's value
class_of_first_octet(first_octet) ==
    IF 1 <= first_octet /\ first_octet <= 126 THEN <<"A", 8>>
    ELSE IF 128 <= first_octet /\ first_octet <= 191 THEN <<"B", 16>>
    ELSE IF 192 <= first_octet /\ first_octet <= 223 THEN <<"C", 24>>
    ELSE IF 224 <= first_octet /\ first_octet <= 239 THEN <<"D", 0>>
    ELSE IF 240 <= first_octet /\ first_octet <= 255 THEN <<"E", 0>>
    ELSE IF first_octet = 127 THEN <<"Loopback", 8>>
    ELSE <<"Unknown", 0>>

determine_ip_class(ip) ==
    LET first_octet == int(split(ip)[1])
    IN  IF ~first_octet.ok
        THEN [exc |-> "ValueError", ip_class |-> "", prefix |-> 0]
        ELSE LET c == class_of_first_octet(first_octet.val)
             IN  [exc |-> "none", ip_class |-> c[1], prefix |-> c[2]]

\* "1" * prefix + "0" * (32 - prefix)
binary_mask(prefix) == [i \in 1..32 |-> IF i <= prefix THEN "1" ELSE "0"]

get_subnet_mask(prefix) ==
    LET mask == binary_mask(prefix)
        octets == [k \in 1..4 |-> SubSeq(mask, 8 * (k - 1) + 1, 8 * k)]
        decimal_octets == [k \in 1..4 |-> str(int_base2(octets[k]))]
    IN  join(decimal_octets)

\* the mask with the "- 1" of the host part left out
mask_int_of_off_by_one(prefix) ==
    wide_sub(wide_sub(pow2(32), pow2(0)), pow2(32 - prefix))

\* (2**32 - 1) - (2**(32 - prefix) - 1)
mask_int_of(prefix) ==
    wide_sub(wide_sub(pow2(32), pow2(0)), wide_sub(pow2(32 - prefix), pow2(0)))

\* the four octets of a 32-bit integer, dotted
dotted(x) ==
    join(<<str(shift_right_and_255(x, 24)), str(shift_right_and_255(x, 16)),
           str(shift_right_and_255(x, 8)), str(shift_right_and_255(x, 0))>>)

\* the integers get_network_range computes from the parsed octets
network_ints(octets, prefix) ==
    LET ip_int == wide_add(wide_add(shift_left(octets[1], 24), shift_left(octets[2], 16)),
                           wide_add(shift_left(octets[3], 8), shift_left(octets[4], 0)))
        mask_int == mask_int_of(prefix)
        network_int == wide_and(ip_int, mask_int)
        broadcast_int == wide_or(network_int, wide_sub(pow2(32 - prefix), pow2(0)))
    IN  [ip_int |-> ip_int, mask_int |-> mask_int,
         network_int |-> network_int, broadcast_int |-> broadcast_int]

NoRange == [exc |-> "none", network_address |-> <<>>, broadcast_address |-> <<>>]

get_network_range(ip, prefix) ==
    LET texts == split(ip)
        parsed == [i \in 1..Len(texts) |-> int(texts[i])]
    IN  IF \E i \in 1..Len(texts) : ~parsed[i].ok
        THEN [NoRange EXCEPT !.exc = "ValueError"]
        ELSE IF Len(texts) < 4
        THEN [NoRange EXCEPT !.exc = "IndexError"]
        ELSE LET n == network_ints([i \in 1..4 |-> parsed[i].val], prefix)
             IN  [exc |-> "none",
                  network_address |-> dotted(n.network_int),
                  broadcast_address |-> dotted(n.broadcast_int)]

\* the classes for which analyze_ip applies no standard mask
NoMaskClasses == {"D", "E", "Unknown"}

\* analyze_ip after its validation: the mapping it returns (val, a function
\* from keys), the exception it lets through (exc), and the helpers
\* analyze_ip called, in order (calls)
analyze_valid_ip(ip) ==
    LET c == determine_ip_class(ip)
    IN  IF c.exc # "none"
        THEN [exc |-> c.exc, val |-> <<>>,
              calls |-> <<"validate_ip", "determine_ip_class">>]
        ELSE IF c.ip_class \in NoMaskClasses
        THEN [exc |-> "none",
              val |-> [ip_address |-> ip, ip_class |-> c.ip_class,
                       note |-> "no_standard_mask"],
              calls |-> <<"validate_ip", "determine_ip_class">>]
        ELSE LET r == get_network_range(ip, c.prefix)
                 all_calls == <<"validate_ip", "determine_ip_class",
                                "get_subnet_mask", "get_network_range">>
             IN  IF r.exc # "none"
                 THEN [exc |-> r.exc, val |-> <<>>, calls |-> all_calls]
                 ELSE [exc |-> "none",
                       val |-> [ip_address |-> ip,
                                ip_class |-> c.ip_class,
                                network_prefix |-> c.prefix,
                                subnet_mask |-> get_subnet_mask(c.prefix),
                                network_address |-> r.network_address,
                                broadcast_address |-> r.broadcast_address,
                                usable_hosts |-> (2 ^ (32 - c.prefix)) - 2],
                       calls |-> all_calls]

\* analyze_ip without its validation
analyze_ip_unvalidated(ip) == analyze_valid_ip(ip)

analyze_ip(ip) ==
    IF ~validate_ip(ip)
    THEN [exc |-> "none", val |-> [k \in {"error"} |-> "invalid_format"],
          calls |-> <<"validate_ip">>]
    ELSE analyze_valid_ip(ip)

(***************************************************************************)
(* The arguments the functions are called on.                              *)
(***************************************************************************)
\* an address text from four octet texts
Dotted4(a, b, c, d) == a \o <<".">> \o b \o <<".">> \o c \o <<".">> \o d

\* an address text from four octet values, in decimal and in 8-bit binary
DecimalText(v) == Dotted4(str(v[1]), str(v[2]), str(v[3]), str(v[4]))

BinaryText(v) ==
    Dotted4(zfill(bin(v[1]), 8), zfill(bin(v[2]), 8),
            zfill(bin(v[3]), 8), zfill(bin(v[4]), 8))

\* the addresses verify_examples and main of homework2.py run on
ExampleValues ==
    {<<65, 58, 20, 252>>, <<154, 246, 184, 244>>, <<10, 0, 0, 1>>,
     <<172, 16, 0, 1>>, <<192, 168, 1, 1>>, <<224, 0, 0, 1>>,
     <<240, 0, 0, 1>>, <<127, 0, 0, 1>>, <<93, 187, 72, 48>>,
     <<72, 163, 4, 161>>, <<15, 217, 232, 245>>}

Examples ==
    {DecimalText(v) : v \in ExampleValues} \cup {BinaryText(v) : v \in ExampleValues}

\* decimal addresses: every first octet 0..MaxValue, the others at the ends
\* and in the middle of the range
RestOctets == {<<"0">>, <<"1">>, <<"2", "5", "5">>}

DecimalInputs ==
    {Dotted4(str(v), b, c, d) :
        v \in 0..MaxValue, b \in RestOctets, c \in RestOctets, d \in RestOctets}

\* octet texts int() is lenient or strict about, and out-of-range values
OddOctets ==
    {<<"1">>, <<"2", "5", "6">>, <<"-", "1">>, <<"0", "1">>, <<"+", "1">>,
     <<" ", "1">>, <<"1", "_", "0">>, <<>>, <<"a">>,
     <<"1", "0", "1", "0", "1", "0", "0">>}

OddInputs ==
    {Dotted4(a, b, c, d) :
        a \in OddOctets, b \in OddOctets, c \in OddOctets, d \in OddOctets}

\* 8-character octets: binary ones that also read as decimal 0..255, binary
\* ones that do not, and one that is not binary
EightChars ==
    {<<"0", "0", "0", "0", "0", "0", "0", "1">>,
     <<"0", "0", "0", "0", "0", "1", "1", "1">>,
     <<"0", "0", "0", "0", "1", "0", "0", "0">>,
     <<"1", "1", "0", "0", "0", "0", "0", "0">>,
     <<"1", "1", "1", "1", "1", "1", "1", "1">>,
     <<"0", "0", "0", "0", "0", "0", "1", "2">>}

EightCharInputs ==
    {Dotted4(a, b, c, d) :
        a \in EightChars, b \in EightChars, c \in EightChars, d \in EightChars}

\* addresses with the wrong number of octets
FewOctets == {<<"1">>, <<"0", "0", "0", "0", "0", "0", "0", "1">>}

OctetLists(n) == [1..n -> FewOctets]

WrongCountInputs ==
    UNION {{join(l) : l \in OctetLists(n)} : n \in (0..MaxOctets) \ {4}}

Inputs == Examples \cup DecimalInputs \cup OddInputs \cup EightCharInputs
            \cup WrongCountInputs

\* the prefixes determine_ip_class hands to get_network_range
Prefixes == {8, 16, 24}

(***************************************************************************)
(* The functions, each called on an argument.                              *)
(***************************************************************************)
LoopIdle ==
    /\ script = 0
    /\ pc = "idle"
    /\ user_input = <<>>
    /\ outcome = "none"
    /\ nread = 0
    /\ nout = 0

Init ==
    /\ ip_address \in Inputs
    /\ op = "none"
    /\ ret = <<>>
    /\ LoopIdle

Returns(name, value) ==
    /\ op = "none"
    /\ op' = name
    /\ ret' = value
    /\ UNCHANGED <<ip_address, script, pc, user_input, outcome, nread, nout>>

Call_decimal_to_binary == Returns("decimal_to_binary", decimal_to_binary(ip_address))

Call_binary_to_decimal == Returns("binary_to_decimal", binary_to_decimal(ip_address))

Call_validate_ip_format == Returns("validate_ip_format", validate_ip_format(ip_address))

Call_validate_ip == Returns("validate_ip", validate_ip(ip_address))

Call_determine_ip_class == Returns("determine_ip_class", determine_ip_class(ip_address))

Call_get_network_range ==
    \E prefix \in Prefixes :
        Returns("get_network_range",
                [prefix |-> prefix, range |-> get_network_range(ip_address, prefix)])

Call_analyze_ip == Returns("analyze_ip", analyze_ip(ip_address))

Next ==
    \/ Call_decimal_to_binary
    \/ Call_binary_to_decimal
    \/ Call_validate_ip_format
    \/ Call_validate_ip
    \/ Call_determine_ip_class
    \/ Call_get_network_range
    \/ Call_analyze_ip

Spec == Init /\ [][Next]_vars

(***************************************************************************)
(* The interactive loops of the two scripts.                               *)
(***************************************************************************)
\* str.lower() on the letters that occur: the Latin alphabet and the letters
\* of the Cyrillic keyword
Upper ==
    <<"A", "B", "C", "D", "E", "F", "G", "H", "I", "J", "K", "L", "M", "N", "O",
      "P", "Q", "R", "S", "T", "U", "V", "W", "X", "Y", "Z",
      "<VE>", "<YERY>", "<HA>", "<O>", "<DE>">>

Lower ==
    <<"a", "b", "c", "d", "e", "f", "g", "h", "i", "j", "k", "l", "m", "n", "o",
      "p", "q", "r", "s", "t", "u", "v", "w", "x", "y", "z",
      "<ve>", "<yery>", "<ha>", "<o>", "<de>">>

lower_char(c) ==
    IF \E i \in 1..Len(Upper) : Upper[i] = c
    THEN Lower[CHOOSE i \in 1..Len(Upper) : Upper[i] = c]
    ELSE c

lower(s) == [i \in 1..Len(s) |-> lower_char(s[i])]

\* ['vykhod', 'exit', 'quit', 'q'], the first one in Cyrillic
ExitKeywords ==
    {<<"<ve>", "<yery>", "<ha>", "<o>", "<de>">>, <<"e", "x", "i", "t">>,
     <<"q", "u", "i", "t">>, <<"q">>}

\* the test without the lower()
is_exit_case_sensitive(line) == line \in ExitKeywords

\* user_input.lower() in [...]
is_exit(line) == lower(line) \in ExitKeywords

\* the lines the user types
Lines ==
    ExitKeywords \cup
    {<<"<VE>", "<YERY>", "<HA>", "<O>", "<DE>">>, <<"E", "X", "I", "T">>, <<"Q", "u", "i", "t">>,
     <<"Q">>, <<" ", "e", "x", "i", "t">>, <<"q", "q">>,
     <<>>, <<"1", ".", "2", ".", "3">>, <<"2", "5", "6", ".", "1", ".", "1", ".", "1">>,
     DecimalText(<<10, 0, 0, 1>>), DecimalText(<<224, 0, 0, 1>>),
     DecimalText(<<0, 0, 0, 1>>), BinaryText(<<192, 168, 1, 1>>),
     BinaryText(<<1, 1, 1, 1>>)}

MainInit ==
    /\ script \in {1, 2}
    /\ pc = "start"
    /\ user_input = <<>>
    /\ outcome = "none"
    /\ nread = 0
    /\ nout = 0
    /\ ip_address = <<>>
    /\ op = "none"
    /\ ret = <<>>

\* the banner and the examples, printed before the loop
Start ==
    /\ pc = "start"
    /\ pc' = "input"
    /\ UNCHANGED <<ip_address, op, ret, script, user_input, outcome, nread, nout>>

\* input() returns the next line
ReadLine ==
    /\ pc = "input"
    /\ nread < MaxLines
    /\ \E line \in Lines : user_input' = line
    /\ nread' = nread + 1
    /\ pc' = "test"
    /\ UNCHANGED <<ip_address, op, ret, script, outcome, nout>>

\* if user_input.lower() in [...]: print(...); break
ExitTest ==
    /\ pc = "test"
    /\ pc' = IF is_exit(user_input) THEN "done" ELSE "body"
    /\ UNCHANGED <<ip_address, op, ret, script, user_input, outcome, nread, nout>>

\* what the loop body of homework1.main computes from a line: the format,
\* the function it calls, what that returns and what it prints
convert_line(line) ==
    LET ip_format == validate_ip_format(line)
    IN  IF ip_format = "decimal"
        THEN [called |-> "decimal_to_binary", returned |-> decimal_to_binary(line),
              printed |-> "binary_printed"]
        ELSE IF ip_format = "binary"
        THEN [called |-> "binary_to_decimal", returned |-> binary_to_decimal(line),
              printed |-> "decimal_printed"]
        ELSE [called |-> "validate_ip_format", returned |-> ip_format,
              printed |-> "format_error_printed"]

\* display_ip_info: which of its three reports it prints
display_ip_info(ip_info) ==
    IF "error" \in DOMAIN ip_info THEN "error_printed"
    ELSE IF "note" \in DOMAIN ip_info THEN "note_printed"
    ELSE "network_printed"

\* what the loop body of homework2.main computes from a line; an exception
\* analyze_ip lets through ends the program with a traceback
analyze_line(line) ==
    LET ip_info == analyze_ip(line)
    IN  [called |-> "analyze_ip", returned |-> ip_info,
         printed |-> IF ip_info.exc # "none" THEN "traceback"
                     ELSE display_ip_info(ip_info.val)]

\* the two loop bodies on each line the user can type
Converted_lines == [line \in Lines |-> convert_line(line)]

Analyzed_lines == [line \in Lines |-> analyze_line(line)]

\* one pass of the loop body on the line read
LoopBody(done) ==
    /\ pc = "body"
    /\ op' = done.called
    /\ ret' = done.returned
    /\ outcome' = done.printed
    /\ pc' = IF done.printed = "traceback" THEN "crashed" ELSE "input"
    /\ ip_address' = user_input
    /\ nout' = nout + 1
    /\ UNCHANGED <<script, user_input, nread>>

\* the rest of the loop body of homework1.main
ConvertLine == script = 1 /\ LoopBody(Converted_lines[user_input])

\* the rest of the loop body of homework2.main
AnalyzeLine == script = 2 /\ LoopBody(Analyzed_lines[user_input])

MainNext ==
    \/ Start
    \/ ReadLine
    \/ ExitTest
    \/ ConvertLine
    \/ AnalyzeLine

MainSpec == MainInit /\ [][MainNext]_vars

\* the interpreter runs the statements of main one after the other; only
\* input() waits, for the user
MainLive ==
    /\ MainSpec
    /\ WF_vars(Start)
    /\ WF_vars(ExitTest)
    /\ WF_vars(ConvertLine)
    /\ WF_vars(AnalyzeLine)

(***************************************************************************)
(* What the claims speak of, stated apart from the code.                   *)
(***************************************************************************)
\* the octet texts of an address, and the number of dots in it
OctetTexts(ip) == split(ip)

DotCount(ip) == Cardinality({i \in 1..Len(ip) : ip[i] = "."})

\* an octet text that reads as a decimal number, and its value
IsNumber(octet) == int(octet).ok

ValueOf(octet) == int(octet).val

InOctetRange(octet) == IsNumber(octet) /\ ValueOf(octet) \in 0..255

\* four octets, each a decimal number 0..255
ValidDecimal(ip) ==
    /\ DotCount(ip) = 3
    /\ \A i \in 1..4 : InOctetRange(OctetTexts(ip)[i])

\* exactly 8 characters, each '0' or '1'
EightBits(octet) == Len(octet) = 8 /\ \A i \in 1..8 : octet[i] \in {"0", "1"}

\* the number an 8-bit group denotes
BitsValue(g) ==
    128 * DigitVal(g[1]) + 64 * DigitVal(g[2]) + 32 * DigitVal(g[3])
    + 16 * DigitVal(g[4]) + 8 * DigitVal(g[5]) + 4 * DigitVal(g[6])
    + 2 * DigitVal(g[7]) + DigitVal(g[8])

ValidBinary(ip) ==
    /\ DotCount(ip) = 3
    /\ \A i \in 1..4 : EightBits(OctetTexts(ip)[i])

\* the decimal text of an octet value, with nothing added
Canonical(ip) ==
    /\ ValidDecimal(ip)
    /\ \A i \in 1..4 : OctetTexts(ip)[i] = str(ValueOf(OctetTexts(ip)[i]))

FirstOctet(ip) == ValueOf(OctetTexts(ip)[1])

\* the example of the docstring of decimal_to_binary: "192.168.1.1" and
\* "11000000.10101000.00000001.00000001"
Decimal_192_168_1_1 == <<"1", "9", "2", ".", "1", "6", "8", ".", "1", ".", "1">>

Binary_192_168_1_1 ==
    <<"1", "1", "0", "0", "0", "0", "0", "0", ".", "1", "0", "1", "0", "1", "0", "0", "0", ".">>
    \o <<"0", "0", "0", "0", "0", "0", "0", "1", ".", "0", "0", "0", "0", "0", "0", "0", "1">>

\* the masks explain_ip_classes prints
Mask_255_0_0_0 == <<"2", "5", "5", ".", "0", ".", "0", ".", "0">>

Mask_255_255_0_0 == <<"2", "5", "5", ".", "2", "5", "5", ".", "0", ".", "0">>

Mask_255_255_255_0 == <<"2", "5", "5", ".", "2", "5", "5", ".", "2", "5", "5", ".", "0">>

\* C1: for every string decimal_to_binary converts without an error,
\* converting the result back with binary_to_decimal gives the string itself.
C1_RoundTrip ==
    (op = "decimal_to_binary" /\ ~ret.err)
        => binary_to_decimal(ret.text) = Converted(ip_address)

C1_FailingInput ==
    /\ op = "decimal_to_binary"
    /\ OctetTexts(ip_address)[1] = <<"0", "1">>
    /\ ~ret.err

\* C1, on the strings the round trip does hold for: when every octet is the
\* plain decimal text of a value 0..255, the round trip gives the string back.
C1_CanonicalRoundTrip ==
    (op = "decimal_to_binary" /\ Canonical(ip_address))
        => /\ ~ret.err
           /\ binary_to_decimal(ret.text) = Converted(ip_address)

\* C2: for four decimal octets 0..255, decimal_to_binary returns four groups
\* in the same order, each 8 bits denoting the octet's value; 192.168.1.1
\* gives 11000000.10101000.00000001.00000001.
C2_BinaryGroups ==
    (op = "decimal_to_binary" /\ ValidDecimal(ip_address))
        => /\ ~ret.err
           /\ DotCount(ret.text) = 3
           /\ \A i \in 1..4 :
                /\ EightBits(OctetTexts(ret.text)[i])
                /\ BitsValue(OctetTexts(ret.text)[i])
                     = ValueOf(OctetTexts(ip_address)[i])
           /\ ip_address = Decimal_192_168_1_1 => ret.text = Binary_192_168_1_1

C2_Witness ==
    /\ op = "decimal_to_binary"
    /\ ip_address = Decimal_192_168_1_1
    /\ ret = Converted(Binary_192_168_1_1)

\* C3: an address with other than four octets, or with a decimal octet
\* outside 0..255, makes decimal_to_binary return an error string and
\* validate_ip return False; one with an octet that is not 8 characters of
\* '0'/'1' makes binary_to_decimal return an error string; one that is
\* neither a valid decimal nor a valid binary address makes
\* validate_ip_format return "invalid".  None of them is converted.
HasOctetOutOfRange(ip) ==
    \E i \in 1..Len(OctetTexts(ip)) :
        IsNumber(OctetTexts(ip)[i]) /\ ValueOf(OctetTexts(ip)[i]) \notin 0..255

HasOctetNotEightBits(ip) ==
    \E i \in 1..Len(OctetTexts(ip)) : ~EightBits(OctetTexts(ip)[i])

C3_MalformedRejected ==
    /\ (op = "decimal_to_binary"
            /\ (DotCount(ip_address) # 3 \/ HasOctetOutOfRange(ip_address)))
        => ret.err
    /\ (op = "validate_ip"
            /\ (DotCount(ip_address) # 3 \/ HasOctetOutOfRange(ip_address)))
        => ret = FALSE
    /\ (op = "binary_to_decimal"
            /\ (DotCount(ip_address) # 3 \/ HasOctetNotEightBits(ip_address)))
        => ret.err
    /\ (op = "validate_ip_format"
            /\ ~ValidDecimal(ip_address) /\ ~ValidBinary(ip_address))
        => ret = "invalid"
    /\ (op = "decimal_to_binary" /\ ~ValidDecimal(ip_address)) => ret.err
    /\ (op = "validate_ip" /\ ~ValidDecimal(ip_address)) => ret = FALSE
    /\ (op = "binary_to_decimal" /\ ~ValidBinary(ip_address)) => ret.err
    /\ (op = "analyze_ip" /\ ~ValidDecimal(ip_address))
        => DOMAIN ret.val = {"error"}

C3_Witness ==
    /\ op = "decimal_to_binary"
    /\ DotCount(ip_address) = 3
    /\ OctetTexts(ip_address)[3] = <<"2", "5", "6">>
    /\ InOctetRange(OctetTexts(ip_address)[1])
    /\ ret.err

\* C4: decimal_to_binary, binary_to_decimal, validate_ip_format and
\* analyze_ip return a value on every string and raise nothing; analyze_ip
\* calls determine_ip_class and get_network_range only on an address
\* validate_ip accepted.
Called(calls, name) == \E i \in 1..Len(calls) : calls[i] = name

C4_NoException ==
    /\ op \in {"decimal_to_binary", "binary_to_decimal"}
        => /\ ret.err \in BOOLEAN
           /\ ret.err => ret.msg \in {"four_octets", "octet_range",
                                      "not_a_number", "eight_bits"}
    /\ op = "validate_ip_format" => ret \in {"decimal", "binary", "invalid"}
    /\ op = "analyze_ip"
        => /\ ret.exc = "none"
           /\ \/ DOMAIN ret.val = {"error"}
              \/ "ip_class" \in DOMAIN ret.val
           /\ (Called(ret.calls, "determine_ip_class")
                  \/ Called(ret.calls, "get_network_range"))
                => ValidDecimal(ip_address)

C4_Witness ==
    /\ op = "analyze_ip"
    /\ DotCount(ip_address) = 3
    /\ ~IsNumber(OctetTexts(ip_address)[1])
    /\ InOctetRange(OctetTexts(ip_address)[2])
    /\ DOMAIN ret.val = {"error"}

\* C5: for a valid address analyze_ip reports the class and default mask
\* the first octet fixes: 1..126 is class A, /8, 255.0.0.0; 128..191 is
\* class B, /16, 255.255.0.0; 192..223 is class C, /24, 255.255.255.0.
Reports(info, class, prefix, mask) ==
    /\ info.exc = "none"
    /\ {"ip_class", "network_prefix", "subnet_mask"} \subseteq DOMAIN info.val
    /\ info.val.ip_class = class
    /\ info.val.network_prefix = prefix
    /\ info.val.subnet_mask = mask

C5_ClassAndMask ==
    (op = "analyze_ip" /\ ValidDecimal(ip_address))
        => /\ FirstOctet(ip_address) \in 1..126
                => Reports(ret, "A", 8, Mask_255_0_0_0)
           /\ FirstOctet(ip_address) \in 128..191
                => Reports(ret, "B", 16, Mask_255_255_0_0)
           /\ FirstOctet(ip_address) \in 192..223
                => Reports(ret, "C", 24, Mask_255_255_255_0)

C5_Witness ==
    /\ op = "analyze_ip"
    /\ ip_address = DecimalText(<<10, 0, 0, 1>>)
    /\ Reports(ret, "A", 8, Mask_255_0_0_0)

\* C6: for a valid address whose first octet is 224..239 analyze_ip reports
\* class D with the address, the class and a note and nothing else: no
\* subnet_mask, network_prefix, network_address, broadcast_address or
\* usable_hosts; likewise class E for 240..255.
ReportsNoMask(info, ip, class) ==
    /\ info.exc = "none"
    /\ DOMAIN info.val = {"ip_address", "ip_class", "note"}
    /\ info.val.ip_address = ip
    /\ info.val.ip_class = class

C6_NoStandardMask ==
    (op = "analyze_ip" /\ ValidDecimal(ip_address))
        => /\ FirstOctet(ip_address) \in 224..239
                => ReportsNoMask(ret, ip_address, "D")
           /\ FirstOctet(ip_address) \in 240..255
                => ReportsNoMask(ret, ip_address, "E")

C6_Witness ==
    /\ op = "analyze_ip"
    /\ ip_address = DecimalText(<<224, 0, 0, 1>>)
    /\ ReportsNoMask(ret, ip_address, "D")

\* C7: every valid address is classified into one of A, B, C, D, E and
\* Loopback: determine_ip_class returns one of these six labels for every
\* first octet 0..255, and analyze_ip reports it as ip_class.
LegacyClasses == {"A", "B", "C", "D", "E", "Loopback"}

C7_SixClasses ==
    /\ (op = "determine_ip_class" /\ ValidDecimal(ip_address))
        => (ret.exc = "none" /\ ret.ip_class \in LegacyClasses)
    /\ (op = "analyze_ip" /\ ValidDecimal(ip_address))
        => (ret.exc = "none" /\ ret.val.ip_class \in LegacyClasses)

\* C7, amended: for a first octet 1..255 the label is one of the six, for a
\* first octet 0 it is the seventh label, "unknown"; analyze_ip reports
\* the label determine_ip_class returns as ip_class.
C7_SixClassesButZero ==
    /\ (op = "determine_ip_class" /\ ValidDecimal(ip_address))
        => /\ ret.exc = "none"
           /\ FirstOctet(ip_address) \in 1..255 => ret.ip_class \in LegacyClasses
           /\ FirstOctet(ip_address) = 0 => ret.ip_class = "Unknown"
    /\ (op = "analyze_ip" /\ ValidDecimal(ip_address))
        => /\ ret.exc = "none"
           /\ FirstOctet(ip_address) \in 1..255 => ret.val.ip_class \in LegacyClasses
           /\ FirstOctet(ip_address) = 0 => ret.val.ip_class = "Unknown"

C7_Witness ==
    /\ op = "determine_ip_class"
    /\ ip_address = DecimalText(<<127, 0, 0, 1>>)
    /\ ret.ip_class = "Loopback"

\* C9: an address of four octets, each exactly 8 characters of '0'/'1', is
\* recognised by validate_ip_format as "binary".
C9_BinaryRecognised ==
    (op = "validate_ip_format" /\ ValidBinary(ip_address)) => ret = "binary"

C9_FailingInput ==
    /\ op = "validate_ip_format"
    /\ ip_address = BinaryText(<<1, 1, 1, 1>>)
    /\ ret = "decimal"

\* C10: for a valid address and a prefix of 8, 16 or 24, get_network_range
\* returns the address with its 32 - prefix host bits cleared and the
\* address with them set: both keep the first prefix / 8 octets, every
\* octet is in 0..255, network <= address <= broadcast, the mask used is
\* the 32-bit value of get_subnet_mask(prefix), and analyze_ip reports
\* usable_hosts with broadcast - network + 1 = usable_hosts + 2.
OctetValues(ip) == [i \in 1..4 |-> ValueOf(OctetTexts(ip)[i])]

\* the 32-bit integer of four octet values
AddressInt(v) == wide(0, v[1] * 256 + v[2], v[3] * 256 + v[4])

\* the first prefix / 8 octets kept, the others replaced by fill
HostOctets(v, prefix, fill) == [i \in 1..4 |-> IF 8 * i <= prefix THEN v[i] ELSE fill]

C10_NetworkRange ==
    /\ (op = "get_network_range" /\ ValidDecimal(ip_address))
        => LET v == OctetValues(ip_address)
               network == HostOctets(v, ret.prefix, 0)
               broadcast == HostOctets(v, ret.prefix, 255)
               n == network_ints(v, ret.prefix)
           IN  /\ ret.range.exc = "none"
               /\ ret.range.network_address = DecimalText(network)
               /\ ret.range.broadcast_address = DecimalText(broadcast)
               /\ Canonical(ret.range.network_address)
               /\ Canonical(ret.range.broadcast_address)
               /\ n.network_int = AddressInt(network)
               /\ n.broadcast_int = AddressInt(broadcast)
               /\ wide_le(n.network_int, n.ip_int)
               /\ wide_le(n.ip_int, n.broadcast_int)
               /\ n.mask_int = AddressInt(OctetValues(get_subnet_mask(ret.prefix)))
    /\ (op = "analyze_ip" /\ ValidDecimal(ip_address)
            /\ "usable_hosts" \in DOMAIN ret.val)
        => wide_add(wide_sub(AddressInt(OctetValues(ret.val.broadcast_address)),
                             AddressInt(OctetValues(ret.val.network_address))),
                    pow2(0))
             = shift_left(ret.val.usable_hosts + 2, 0)

C10_Witness ==
    /\ op = "get_network_range"
    /\ ip_address = DecimalText(<<172, 16, 0, 1>>)
    /\ ret.prefix = 16
    /\ ret.range.network_address = DecimalText(<<172, 16, 0, 0>>)
    /\ ret.range.broadcast_address = DecimalText(<<172, 16, 255, 255>>)

\* C8: in both scripts every line that is not an exit keyword produces
\* exactly one outcome, a result or an error message, and the loop prompts
\* again; the loop ends when, and only when, a line equal to one of the
\* exit keywords, case ignored, is read, and that line is never passed to
\* conversion or analysis; once an exit keyword is entered the program
\* terminates.
SameLetter(c, d) ==
    c = d \/ \E i \in 1..Len(Upper) : {c, d} = {Upper[i], Lower[i]}

SameIgnoringCase(a, b) ==
    Len(a) = Len(b) /\ \A i \in 1..Len(a) : SameLetter(a[i], b[i])

ExitLine(line) == \E k \in ExitKeywords : SameIgnoringCase(line, k)

Outcomes ==
    {"binary_printed", "decimal_printed", "format_error_printed",
     "error_printed", "note_printed", "network_printed"}

C8_LoopInvariant ==
    /\ pc \in {"start", "input", "test", "body", "done"}
    /\ pc \in {"start", "input"} => nout = nread
    /\ pc \in {"test", "body", "done"} => nout = nread - 1
    /\ pc = "done" => ExitLine(user_input)
    /\ pc = "body" => ~ExitLine(user_input)
    /\ op # "none" => ~ExitLine(ip_address)
    /\ nout > 0 => outcome \in Outcomes

C8_InteractiveLoop ==
    /\ []C8_LoopInvariant
    /\ [][pc = "body" => (pc' = "input" /\ nout' = nout + 1
                             /\ ip_address' = user_input)]_vars
    /\ [][pc = "done" => pc' = "done"]_vars
    /\ (pc = "test" /\ ExitLine(user_input)) ~> (pc = "done")
    /\ (pc = "test" /\ ~ExitLine(user_input)) ~> (pc = "input" /\ nout = nread)

C8_Witness ==
    /\ pc = "done"
    /\ user_input = <<"E", "X", "I", "T">>
    /\ nread = 3
    /\ nout = 2
    /\ outcome \in Outcomes

=============================================================================
